---- MODULE Spec2Model ----
(***************************************************************************)
(* A model of the wavetable synthesis code of wavetable-synthesis-web:     *)
(* the WavetableOscillator blend engine (constructor, addWavetable,        *)
(* setPosition) and the WAV analysis functions (getWindowStartIndices-     *)
(* ForCount, wavFileToWavetables, singleCycleToFourier,                    *)
(* extractSingleCycle), and the page that drives them: the play, slider    *)
(* and file input handlers of main.js and startOscillator of audio.js,     *)
(* interleaved at their awaits.                                            *)
(*                                                                         *)
(* Numbers.  The engine's numbers (positions, blend weights, Fourier       *)
(* coefficients) are fixed-point rationals: the integer x stands for the   *)
(* number x / PosDen.  One is the number 1.  Products of a coefficient and *)
(* a weight are exact for the coefficients of the tables passed to the    *)
(* engine on its own, which are whole numbers; the built-in tables of      *)
(* main.js hold 1/n rounded down to the grid.  The analysis functions      *)
(* divide by data, so their numbers are fractions with Infinity and NaN    *)
(* (see "JS numbers" below).                                               *)
(* Float32 rounding is not modelled, and every number passed in is finite  *)
(* (main.js filters NaN before it calls setPosition).                      *)
(***************************************************************************)
EXTENDS Integers, Sequences, FiniteSets, TLC

\* ------------------------------------------------------------------ bounds

\* Positions are the multiples of 1/PosDen.
PosDen == 4
\* addWavetable stops appending at MaxTables tables.
MaxTables == 3
\* The constructor receives at most MaxInitTables tables.
MaxInitTables == 2

\* ------------------------------------------------------ program constants

\* new WavetableOscillator(audioContext, initialTables, { frequency: 220 })
InitialFrequency == 220
\* const { harmonics = 32, ... } = options
DefaultHarmonics == 32
\* const windowSize = Math.min(samples.length, 16384)
AnalysisWindow == 16384

\* ---------------------------------------------------------------- helpers

Min(a, b) == IF a <= b THEN a ELSE b
Max(a, b) == IF a >= b THEN a ELSE b

One == PosDen
\* The whole number c as a fixed-point number.
Num(c) == c * PosDen
\* The product of the fixed-point numbers x and y.
Mul(x, y) == (x * y) \div PosDen

\* ---------------------------------------------------------- JS values

\* A value passed where a wavetable { real, imag } is expected: null, undefined
\* or an object whose real and imag properties may be missing.
JSValue(kind, hasReal, real, hasImag, imag) ==
    [kind |-> kind, hasReal |-> hasReal, real |-> real, hasImag |-> hasImag, imag |-> imag]

Null == JSValue("null", FALSE, <<>>, FALSE, <<>>)
Undefined == JSValue("undefined", FALSE, <<>>, FALSE, <<>>)
Wavetable(real, imag) == JSValue("object", TRUE, real, TRUE, imag)

\* !wavetable, !wavetable.real, !wavetable.imag
Falsy(v) == v.kind \in {"null", "undefined"}
FalsyReal(v) == ~v.hasReal
FalsyImag(v) == ~v.hasImag

\* Reading v.real.length and v.imag.length raises no TypeError.
Usable(v) == v.kind = "object" /\ v.hasReal /\ v.hasImag

\* The tables the callers pass: whole-number coefficients, of equal and of
\* unequal lengths, one with an empty imag sequence.
TableA == Wavetable(<<Num(0), Num(2)>>, <<Num(0), Num(1)>>)
TableB == Wavetable(<<Num(1)>>, <<Num(0), Num(-1), Num(3)>>)
TableC == Wavetable(<<Num(0), Num(0), Num(0), Num(4)>>, <<>>)
TablePool == {TableA, TableB, TableC}

\* The malformed arguments of addWavetable.
Malformed ==
    { Null, Undefined,
      JSValue("object", FALSE, <<>>, TRUE, <<Num(0), Num(1)>>),
      JSValue("object", TRUE, <<Num(0), Num(2)>>, FALSE, <<>>),
      JSValue("object", FALSE, <<>>, FALSE, <<>>) }

\* The positions the callers pass: below 0, inside [0,1] and above 1.
PosInputs == {0 - PosDen, 0 - 1} \cup (0 .. PosDen) \cup {PosDen + 1, 2 * PosDen}

\* ------------------------------------------------------------------ state

VARIABLES
    wavetables,     \* this.wavetables
    periodicWaves,  \* this._periodicWaves
    oscWave,        \* the wave set on this.oscillator: <<>> when none was set, else <<wave>>
    position,       \* this._position
    frequency,      \* this.oscillator.frequency.value: <<>> is the host's default, else <<hz>>
    op,             \* the last call made on the engine, with its argument
    err,            \* the error the last call raised, "none" when it returned
    call,           \* the analysis function under evaluation, with its arguments
    ret,            \* its outcome: <<>> before it ran, else <<outcome>>
    audioContext,       \* audio.js: audioContext is set (TRUE) or null (FALSE)
    oscillator,         \* audio.js: oscillator is set (TRUE) or null (FALSE)
    oscillatorCalls,    \* the oscillators startOscillator created, connected, started
    startCalls,         \* the number of startOscillator calls suspended at resume()
    wavetableOsc,       \* main.js: wavetableOsc is set (TRUE) or null (FALSE)
    engineCalls,        \* the WavetableOscillators main.js created, connected, started
    importedWavetables, \* main.js: importedWavetables
    visualizerStarted,  \* main.js: visualizerStarted
    playDisabled,       \* playButton.disabled
    blendSlider,        \* parseFloat(blendSlider.value): <<>> is NaN, else <<number>>
    wavInput,           \* wavInput.value: "" or "file"
    playHandlers,       \* the number of play click handlers suspended at resume()
    importHandlers,     \* the stage of every WAV import handler, by order of its event
    running,            \* the handler whose continuation is running, with its local state
    importLog           \* the [id, count] of every import whose tables arrived, in order

engine == <<wavetables, periodicWaves, oscWave, position, frequency, op, err>>
analysis == <<call, ret>>
page == <<audioContext, oscillator, oscillatorCalls, startCalls, wavetableOsc, engineCalls,
          importedWavetables, visualizerStarted, playDisabled, blendSlider, wavInput,
          playHandlers, importHandlers, running, importLog>>
vars == <<engine, analysis, page>>

\* No handler's continuation is running.
Idle == [handler |-> "none", id |-> 0, todo |-> <<>>]

\* The page as loaded: the initialisers of audio.js and main.js, no event yet.
PageLoaded ==
    /\ audioContext = FALSE
    /\ oscillator = FALSE
    /\ oscillatorCalls = [created |-> 0, connected |-> 0, started |-> 0]
    /\ startCalls = 0
    /\ wavetableOsc = FALSE
    /\ engineCalls = [created |-> 0, connected |-> 0, started |-> 0]
    /\ importedWavetables = <<>>
    /\ visualizerStarted = FALSE
    /\ playDisabled = FALSE
    /\ wavInput = ""
    /\ playHandlers = 0
    /\ importHandlers = <<>>
    /\ running = Idle
    /\ importLog = <<>>

\* The engine or an analysis function on its own, outside the page.
PageUnused == PageLoaded /\ blendSlider = <<>>

\* ------------------------------------------------- WavetableOscillator

\* audioContext.createPeriodicWave(real, imag): the host keeps the coefficient
\* pair it is given.  The host's own validation of the pair (its lengths) is
\* not part of this code and is not modelled.
CreatePeriodicWave(real, imag) == [real |-> real, imag |-> imag]

\* The constructor's state: Array.isArray(wavetables) ? wavetables : [].
ConstructorTables(arg) == IF arg.isArray THEN arg.tables ELSE <<>>

ConstructorWaves(arg) ==
    [i \in 1 .. Len(ConstructorTables(arg)) |->
        CreatePeriodicWave(ConstructorTables(arg)[i].real, ConstructorTables(arg)[i].imag)]

ConstructorOscWave(arg) ==
    IF Len(ConstructorWaves(arg)) > 0 THEN <<ConstructorWaves(arg)[1]>> ELSE <<>>

ConstructorPosition == 0

\* if (options.frequency != null) this.oscillator.frequency.value = options.frequency
ConstructorFrequency(arg) == IF arg.frequency # <<>> THEN arg.frequency ELSE <<>>

\* A clamp that forgets the upper limit.
ClampLowerOnly(p) == Max(0, p)

\* Math.max(0, Math.min(1, position))
Clamp(p) == Max(0, Min(One, p))

\* const scaled = clamped * lastIndex
Scaled(clamped, lastIndex) == clamped * lastIndex
\* const i0 = Math.floor(scaled), as a 0-based index
I0(clamped, lastIndex) == Scaled(clamped, lastIndex) \div PosDen
\* An upper index that forgets the min with lastIndex.
I1Unbounded(clamped, lastIndex) == I0(clamped, lastIndex) + 1

\* const i1 = Math.min(i0 + 1, lastIndex)
I1(clamped, lastIndex) == Min(I0(clamped, lastIndex) + 1, lastIndex)
\* const t = scaled - i0
T(clamped, lastIndex) == Scaled(clamped, lastIndex) - Num(I0(clamped, lastIndex))

\* A coefficient read that repeats the last coefficient past the end.
CoefAtRepeatLast(arr, n) ==
    IF n < Len(arr) THEN arr[n + 1] ELSE IF Len(arr) > 0 THEN arr[Len(arr)] ELSE 0

\* n < arr.length ? arr[n] : 0, n a 0-based index
CoefAt(arr, n) == IF n < Len(arr) THEN arr[n + 1] ELSE 0

\* Math.max(wt0.real.length, wt0.imag.length, wt1.real.length, wt1.imag.length)
MaxLen(wt0, wt1) ==
    Max(Max(Len(wt0.real), Len(wt0.imag)), Max(Len(wt1.real), Len(wt1.imag)))

\* r0 * (1 - t) + r1 * t
Lerp(c0, c1, t) == Mul(c0, One - t) + Mul(c1, t)

\* The loop of setPosition and the createPeriodicWave after it.
Blend(wt0, wt1, t) ==
    CreatePeriodicWave(
        [n \in 1 .. MaxLen(wt0, wt1) |-> Lerp(CoefAt(wt0.real, n - 1), CoefAt(wt1.real, n - 1), t)],
        [n \in 1 .. MaxLen(wt0, wt1) |-> Lerp(CoefAt(wt0.imag, n - 1), CoefAt(wt1.imag, n - 1), t)])

\* this.wavetables[i], i a 0-based index: undefined outside the array.
TableAt(i) == IF 0 <= i /\ i < Len(wavetables) THEN wavetables[i + 1] ELSE Undefined

\* setPosition(p): the new [position, oscWave, err].
SetPosition(p) ==
    LET clamped == Clamp(p)
        numWaves == Len(wavetables)
        lastIndex == numWaves - 1
        wt0 == TableAt(I0(clamped, lastIndex))
        wt1 == TableAt(I1(clamped, lastIndex))
    IN  IF numWaves = 0
        THEN [position |-> clamped, oscWave |-> oscWave, err |-> "none"]
        ELSE IF numWaves = 1
        THEN [position |-> clamped,
              oscWave |-> IF Len(periodicWaves) >= 1 THEN <<periodicWaves[1]>> ELSE oscWave,
              err |-> "none"]
        ELSE IF ~(Usable(wt0) /\ Usable(wt1))
        THEN [position |-> clamped, oscWave |-> oscWave, err |-> "TypeError"]
        ELSE [position |-> clamped,
              oscWave |-> <<Blend(wt0, wt1, T(clamped, lastIndex))>>,
              err |-> "none"]

\* A guard that forgets to test wavetable.imag.
AddGuardNoImag(wt) == Falsy(wt) \/ FalsyReal(wt)

\* if (!wavetable || !wavetable.real || !wavetable.imag) return;
AddGuard(wt) == Falsy(wt) \/ FalsyReal(wt) \/ FalsyImag(wt)

\* A snap that does not test the position.
AddSnapsAlways(pos, lastIndex) == lastIndex >= 0

\* A snap that asks for a position above 1.
AddSnapsAboveOne(pos, lastIndex) == pos > One /\ lastIndex >= 0

\* this._position >= 1 && lastIndex >= 0
AddSnaps(pos, lastIndex) == pos >= One /\ lastIndex >= 0

\* An unshift in place of the push.
PushFront(tables, wt) == <<wt>> \o tables

\* this.wavetables.push(wavetable)
Push(tables, wt) == Append(tables, wt)

\* addWavetable(wt): the new [wavetables, periodicWaves, oscWave, err].
AddWavetable(wt) ==
    LET pushed == Push(wavetables, wt)
        waves == Append(periodicWaves, CreatePeriodicWave(wt.real, wt.imag))
        lastIndex == Len(pushed) - 1
    IN  IF AddGuard(wt)
        THEN [wavetables |-> wavetables, periodicWaves |-> periodicWaves,
              oscWave |-> oscWave, err |-> "none"]
        ELSE IF ~Usable(wt)
        THEN \* wavetable.real of null, or createPeriodicWave of an undefined sequence
             [wavetables |-> pushed, periodicWaves |-> periodicWaves,
              oscWave |-> oscWave, err |-> "TypeError"]
        ELSE IF ~AddSnaps(position, lastIndex)
        THEN [wavetables |-> pushed, periodicWaves |-> waves,
              oscWave |-> oscWave, err |-> "none"]
        ELSE IF lastIndex + 1 > Len(waves)
        THEN \* setPeriodicWave(undefined)
             [wavetables |-> pushed, periodicWaves |-> waves,
              oscWave |-> oscWave, err |-> "TypeError"]
        ELSE [wavetables |-> pushed, periodicWaves |-> waves,
              oscWave |-> <<waves[lastIndex + 1]>>, err |-> "none"]

\* ---------------------------------------------------------------- actions

RECURSIVE SeqsUpTo(_, _)
\* The sequences over S of length at most n.
SeqsUpTo(S, n) ==
    IF n = 0 THEN {<<>>}
    ELSE LET shorter == SeqsUpTo(S, n - 1)
         IN  shorter \cup {Append(s, x) : s \in {q \in shorter : Len(q) = n - 1}, x \in S}

\* { frequency: 220 }, as main.js passes, or no frequency option.
FrequencyOptions == {<<>>, <<InitialFrequency>>}

ConstructorArgs ==
    {[isArray |-> FALSE, tables |-> <<>>, frequency |-> f] : f \in FrequencyOptions}
        \cup {[isArray |-> TRUE, tables |-> s, frequency |-> f] :
                s \in SeqsUpTo(TablePool, MaxInitTables), f \in FrequencyOptions}

Init ==
    \E arg \in ConstructorArgs :
        /\ wavetables = ConstructorTables(arg)
        /\ periodicWaves = ConstructorWaves(arg)
        /\ oscWave = ConstructorOscWave(arg)
        /\ position = ConstructorPosition
        /\ frequency = ConstructorFrequency(arg)
        /\ op = [name |-> "constructor", wt |-> Null, p |-> 0]
        /\ err = "none"
        /\ call = [fn |-> "none"]
        /\ ret = <<>>
        /\ PageUnused

DoSetPosition ==
    \E p \in PosInputs :
        LET r == SetPosition(p)
        IN  /\ position' = r.position
            /\ oscWave' = r.oscWave
            /\ err' = r.err
            /\ op' = [name |-> "setPosition", wt |-> Null, p |-> p]
            /\ UNCHANGED <<wavetables, periodicWaves, frequency, analysis, page>>

DoAddWavetable ==
    \E wt \in TablePool \cup Malformed :
        /\ Len(wavetables) < MaxTables \/ wt \in Malformed
        /\ LET r == AddWavetable(wt)
           IN  /\ wavetables' = r.wavetables
               /\ periodicWaves' = r.periodicWaves
               /\ oscWave' = r.oscWave
               /\ err' = r.err
               /\ op' = [name |-> "addWavetable", wt |-> wt, p |-> 0]
               /\ UNCHANGED <<position, frequency, analysis, page>>

Next == DoSetPosition \/ DoAddWavetable

Spec == Init /\ [][Next]_vars

\* =================================================================
\* WAV analysis: pure functions, each checked under a specification of
\* its own that draws the arguments in its initial states.
\* =================================================================

\* More bounds: the longest sample buffer, the largest window size, window
\* count and harmonic count.
MaxSamples == 5
MaxWindowSize == 3
MaxCount == 4
MaxHarmonics == 3

\* Sample values below, at and above zero, with two magnitudes.
SampleValues == {0 - 2, 0, 1}

\* The decoded sample buffers: getChannelData(0).
SampleBuffers == SeqsUpTo(SampleValues, MaxSamples)

\* The engine is not in use while an analysis function is evaluated.
EngineUnused ==
    /\ wavetables = <<>>
    /\ periodicWaves = <<>>
    /\ oscWave = <<>>
    /\ position = 0
    /\ frequency = <<>>
    /\ op = [name |-> "none", wt |-> Null, p |-> 0]
    /\ err = "none"

\* --------------------------------------- getWindowStartIndicesForCount

\* A start that is not limited to the last full window.
WindowStartUnclamped(i, step, limit) == i * step

\* const s = Math.min(i * step, totalLength - windowSize)
WindowStart(i, step, limit) == Min(i * step, limit)

\* const step = Math.max(1, Math.floor(usable / (count - 1)))
WindowStep(usable, count) == Max(1, usable \div (count - 1))

RECURSIVE StartsUntilEnd(_, _, _, _)
StartsUntilEnd(i, step, limit, count) ==
    IF i >= count \/ i * step > limit THEN <<>>
    ELSE <<i * step>> \o StartsUntilEnd(i + 1, step, limit, count)

\* A segmenter that stops at the last full window instead of repeating it.
GetWindowStartsUntilEnd(totalLength, windowSize, count) ==
    IF count <= 1 THEN <<0>>
    ELSE IF totalLength - windowSize <= 0 THEN <<0>>
    ELSE StartsUntilEnd(0, WindowStep(totalLength - windowSize, count),
                        totalLength - windowSize, count)

\* getWindowStartIndicesForCount(totalLength, windowSize, count)
GetWindowStartIndicesForCount(totalLength, windowSize, count) ==
    IF count <= 1 THEN <<0>>
    ELSE LET usable == totalLength - windowSize
         IN  IF usable <= 0 THEN <<0>>
             ELSE [i \in 1 .. count |->
                    WindowStart(i - 1, WindowStep(usable, count), totalLength - windowSize)]

WindowStartsCalls ==
    [fn : {"getWindowStartIndicesForCount"}, totalLength : 0 .. (MaxSamples + MaxWindowSize),
     windowSize : 0 .. MaxWindowSize, count : 0 .. MaxCount]

InitWindowStarts == EngineUnused /\ PageUnused /\ call \in WindowStartsCalls /\ ret = <<>>

DoWindowStarts ==
    /\ call.fn = "getWindowStartIndicesForCount" /\ ret = <<>>
    /\ ret' = <<GetWindowStartIndicesForCount(call.totalLength, call.windowSize, call.count)>>
    /\ UNCHANGED <<engine, call, page>>

SpecWindowStarts == InitWindowStarts /\ [][DoWindowStarts]_vars

\* ------------------------------------------------- wavFileToWavetables

\* windowToWavetable(window, options): a wavetable of `harmonics` coefficient
\* pairs computed from the samples of the window (DC removal, rotation to a
\* rising zero crossing, Hann window, Fourier sums).  The coefficient values
\* are left unevaluated: the wavetable is identified by what it was computed
\* from.
WindowToWavetable(window, harmonics) == [window |-> window, harmonics |-> harmonics]

\* samples.slice(0, Math.min(samples.length, windowSize)), zero-padded on the
\* right to windowSize: padded.set(window)
PaddedWindow(samples, windowSize) ==
    [i \in 1 .. windowSize |-> IF i <= Len(samples) THEN samples[i] ELSE 0]

\* samples.subarray(start, start + windowSize)
Subarray(samples, start, end) == SubSeq(samples, start + 1, Min(end, Len(samples)))

\* wavFileToWavetables, from the decoded samples on.
WavFileToWavetables(samples, windowSize, count, harmonics) ==
    IF Len(samples) = 0 THEN <<>>
    ELSE IF Len(samples) <= windowSize
    THEN <<WindowToWavetable(PaddedWindow(samples, windowSize), harmonics)>>
    ELSE LET starts == GetWindowStartIndicesForCount(Len(samples), windowSize, count)
         IN  [i \in 1 .. Len(starts) |->
                WindowToWavetable(Subarray(samples, starts[i], starts[i] + windowSize), harmonics)]

ExtractCalls ==
    [fn : {"wavFileToWavetables"}, samples : SampleBuffers,
     windowSize : 1 .. MaxWindowSize, count : 0 .. MaxCount, harmonics : {DefaultHarmonics}]

InitExtract == EngineUnused /\ PageUnused /\ call \in ExtractCalls /\ ret = <<>>

DoExtract ==
    /\ call.fn = "wavFileToWavetables" /\ ret = <<>>
    /\ ret' = <<WavFileToWavetables(call.samples, call.windowSize, call.count, call.harmonics)>>
    /\ UNCHANGED <<engine, call, page>>

SpecExtract == InitExtract /\ [][DoExtract]_vars

\* ------------------------------------------------------ JS numbers
\* The analysis functions divide, so their numbers are fractions <<n, d>> in
\* lowest terms with d >= 0: <<n, 1>> is the integer n, <<1, 0>> and <<-1, 0>>
\* are Infinity and -Infinity, <<0, 0>> is NaN.  The arithmetic is exact:
\* rounding to Float32 and the sign of zero are not modelled.

Abs(x) == IF x < 0 THEN 0 - x ELSE x
Sign(x) == IF x < 0 THEN 0 - 1 ELSE IF x > 0 THEN 1 ELSE 0

RECURSIVE Gcd(_, _)
Gcd(a, b) == IF b = 0 THEN a ELSE Gcd(b, a % b)

QNorm(n, d) ==
    IF d = 0 THEN <<Sign(n), 0>>
    ELSE LET g == Gcd(Abs(n), Abs(d))
         IN  <<(Sign(d) * n) \div g, Abs(d) \div g>>

QInt(x) == <<x, 1>>
QNaN == <<0, 0>>
IsNaN(a) == a = QNaN
IsFinite(a) == a[2] # 0

\* a * b: Infinity * 0 is NaN
QMul(a, b) == QNorm(a[1] * b[1], a[2] * b[2])
\* a / b: 0 / 0 is NaN, x / 0 is +-Infinity
QDiv(a, b) == QNorm(a[1] * b[2] * Sign(b[1]), a[2] * Abs(b[1]))
\* a + b: Infinity - Infinity is NaN
QAdd(a, b) ==
    IF IsNaN(a) \/ IsNaN(b) THEN QNaN
    ELSE IF ~IsFinite(a) /\ ~IsFinite(b) THEN (IF a = b THEN a ELSE QNaN)
    ELSE IF ~IsFinite(a) THEN a
    ELSE IF ~IsFinite(b) THEN b
    ELSE QNorm(a[1] * b[2] + b[1] * a[2], a[2] * b[2])
\* a > b: false when either is NaN
QGreater(a, b) ==
    /\ ~IsNaN(a) /\ ~IsNaN(b)
    /\ IF IsFinite(a) /\ IsFinite(b) THEN a[1] * b[2] > b[1] * a[2]
       ELSE IF IsFinite(a) THEN b = <<0 - 1, 0>>
       ELSE IF IsFinite(b) THEN a = <<1, 0>>
       ELSE a = <<1, 0>> /\ b = <<0 - 1, 0>>
\* Math.abs(a)
QAbs(a) == <<Abs(a[1]), a[2]>>

RECURSIVE QSum(_, _)
\* f(1) + ... + f(n), added in that order from 0
QSum(f, n) == IF n = 0 THEN QInt(0) ELSE QAdd(QSum(f, n - 1), f[n])

\* ------------------------------------------------ singleCycleToFourier

\* Math.cos and Math.sin of (2 * Math.PI * k * n) / N, for the cycle lengths
\* N that divide 4, where the angle is a whole number of quarter turns (the
\* values are the exact ones).
QuarterTurns(k, n, N) == ((k * n * 4) \div N) % 4
Cos(k, n, N) == QInt(<<1, 0, 0 - 1, 0>>[QuarterTurns(k, n, N) + 1])
Sin(k, n, N) == QInt(<<0, 1, 0, 0 - 1>>[QuarterTurns(k, n, N) + 1])

\* A DC term that is 0 for an empty cycle.
DcTermGuarded(cycle) ==
    IF Len(cycle) = 0 THEN QInt(0) ELSE QDiv(QSum(cycle, Len(cycle)), QInt(Len(cycle)))

\* let mean = 0; for (...) mean += cycle[n]; real[0] = mean / N
DcTerm(cycle) == QDiv(QSum(cycle, Len(cycle)), QInt(Len(cycle)))

\* real[k] = (2 / N) * sumCos, k >= 1
RealTerm(cycle, k) ==
    LET N == Len(cycle)
    IN  QMul(QDiv(QInt(2), QInt(N)),
             QSum([n \in 1 .. N |-> QMul(cycle[n], Cos(k, n - 1, N))], N))

\* imag[k] = (2 / N) * sumSin, k >= 1
ImagTerm(cycle, k) ==
    LET N == Len(cycle)
    IN  QMul(QDiv(QInt(2), QInt(N)),
             QSum([n \in 1 .. N |-> QMul(cycle[n], Sin(k, n - 1, N))], N))

\* singleCycleToFourier(cycle, harmonics).  new Float32Array(harmonics) raises
\* a RangeError for a negative length; a write to index 0 of an empty array
\* is dropped; imag[0] keeps its initial 0.
SingleCycleToFourier(cycle, harmonics) ==
    IF harmonics < 0
    THEN [status |-> "RangeError", real |-> <<>>, imag |-> <<>>]
    ELSE [status |-> "ok",
          real |-> [k \in 1 .. harmonics |->
                        IF k = 1 THEN DcTerm(cycle) ELSE RealTerm(cycle, k - 1)],
          imag |-> [k \in 1 .. harmonics |->
                        IF k = 1 THEN QInt(0) ELSE ImagTerm(cycle, k - 1)]]

\* The cycles: sample sequences of a length that divides 4, or empty.
Cycles ==
    {[i \in 1 .. Len(s) |-> QInt(s[i])] :
        s \in {b \in SeqsUpTo(SampleValues, 4) : Len(b) \in {0, 1, 2, 4}}}

FourierCalls ==
    [fn : {"singleCycleToFourier"}, cycle : Cycles, harmonics : (0 - 1) .. MaxHarmonics]

InitFourier == EngineUnused /\ PageUnused /\ call \in FourierCalls /\ ret = <<>>

DoFourier ==
    /\ call.fn = "singleCycleToFourier" /\ ret = <<>>
    /\ ret' = <<SingleCycleToFourier(call.cycle, call.harmonics)>>
    /\ UNCHANGED <<engine, call, page>>

SpecFourier == InitFourier /\ [][DoFourier]_vars

\* -------------------------------------------------- extractSingleCycle

\* const minLag = Math.max(2, Math.floor(sampleRate / maxFrequency))
MinLag(sampleRate, maxFrequency) == Max(2, sampleRate \div maxFrequency)

\* const maxLag = Math.min(window.length - 2, Math.floor(sampleRate / minFrequency))
MaxLag(window, sampleRate, minFrequency) == Min(Len(window) - 2, sampleRate \div minFrequency)

RECURSIVE AutoCorr(_, _, _)
\* sum += window[i] * window[i + lag] for the 0-based i below limit
AutoCorr(window, lag, limit) ==
    IF limit <= 0 THEN 0
    ELSE AutoCorr(window, lag, limit - 1) + window[limit] * window[limit + lag]

\* A search that starts from the largest lag.
InitialBestLagMax(minLag, maxLag) == maxLag

\* let bestLag = minLag
InitialBestLag(minLag, maxLag) == minLag

RECURSIVE LagSearch(_, _, _, _, _)
\* The loop over lag = minLag .. maxLag: the lag of the first largest score.
LagSearch(window, lag, maxLag, bestLag, bestScore) ==
    IF lag > maxLag THEN bestLag
    ELSE LET sum == QInt(AutoCorr(window, lag, Len(window) - lag))
         IN  IF QGreater(sum, bestScore)
             THEN LagSearch(window, lag + 1, maxLag, lag, sum)
             ELSE LagSearch(window, lag + 1, maxLag, bestLag, bestScore)

\* const period = Math.max(2, bestLag)
Period(window, sampleRate, minFrequency, maxFrequency) ==
    LET minLag == MinLag(sampleRate, maxFrequency)
        maxLag == MaxLag(window, sampleRate, minFrequency)
    IN  Max(2, LagSearch(window, minLag, maxLag, InitialBestLag(minLag, maxLag), <<0 - 1, 0>>))

RECURSIVE CrossingFrom(_, _, _)
\* The loop over i < searchLimit: i + 1 for the first rising zero crossing
\* at the 0-based i, else the initial startIndex 0.
CrossingFrom(window, i, searchLimit) ==
    IF i >= searchLimit THEN 0
    ELSE IF window[i + 1] <= 0 /\ window[i + 2] > 0 THEN i + 1
    ELSE CrossingFrom(window, i + 1, searchLimit)

\* startIndex after: if (startIndex + period > window.length) startIndex = 0
StartIndex(window, period) ==
    LET found == CrossingFrom(window, 0, Len(window) - period - 2)
    IN  IF found + period > Len(window) THEN 0 ELSE found

\* cycle[i] = window[startIndex + i]: a read past the end of the window is
\* undefined, which a Float32Array stores as NaN
CopyCycle(window, startIndex, period) ==
    [i \in 1 .. period |->
        IF startIndex + i <= Len(window) THEN QInt(window[startIndex + i]) ELSE QNaN]

RECURSIVE Peak(_, _)
\* const a = Math.abs(cycle[i]); if (a > peak) peak = a
Peak(cycle, n) ==
    IF n = 0 THEN QInt(0)
    ELSE LET before == Peak(cycle, n - 1)
         IN  IF QGreater(QAbs(cycle[n]), before) THEN QAbs(cycle[n]) ELSE before

\* if (peak > 0) { const scale = 1 / peak; cycle[i] *= scale }
Normalize(cycle) ==
    LET peak == Peak(cycle, Len(cycle))
    IN  IF QGreater(peak, QInt(0))
        THEN [i \in 1 .. Len(cycle) |-> QMul(cycle[i], QDiv(QInt(1), peak))]
        ELSE cycle

\* extractSingleCycle(samples, sampleRate, { minFrequency, maxFrequency })
ExtractSingleCycle(samples, sampleRate, minFrequency, maxFrequency) ==
    IF Len(samples) = 0 THEN [status |-> "ok", cycle |-> <<QInt(0)>>]
    ELSE LET window == Subarray(samples, 0, Min(Len(samples), AnalysisWindow))
             period == Period(window, sampleRate, minFrequency, maxFrequency)
         IN  [status |-> "ok",
              cycle |-> Normalize(CopyCycle(window, StartIndex(window, period), period))]

CycleCalls ==
    [fn : {"extractSingleCycle"}, samples : SampleBuffers, sampleRate : {9},
     minFrequency : {1, 2, 4}, maxFrequency : {1, 2, 4}]

InitCycle == EngineUnused /\ PageUnused /\ call \in CycleCalls /\ ret = <<>>

DoCycle ==
    /\ call.fn = "extractSingleCycle" /\ ret = <<>>
    /\ ret' = <<ExtractSingleCycle(call.samples, call.sampleRate,
                                   call.minFrequency, call.maxFrequency)>>
    /\ UNCHANGED <<engine, call, page>>

SpecCycle == InitCycle /\ [][DoCycle]_vars

\* =================================================================
\* The page: the handlers of main.js and startOscillator of audio.js
\* =================================================================
\*
\* A handler runs without interruption from one await to the next.  The
\* variable `running` names the handler whose continuation is in progress:
\* while it is not Idle only that handler takes steps, one engine call per
\* step, and no event and no other continuation is served.

\* At most MaxPlayClicks play handlers are suspended at resume() at a time.
MaxPlayClicks == 2
\* At most MaxImports change events of the file input are served.
MaxImports == 2
\* At most MaxStartCalls calls of startOscillator are suspended at resume()
\* at a time.
MaxStartCalls == 2

\* const harmonics = 32 of the play handler.
BuiltinHarmonics == 32
\* { harmonics: 32, ... } of the import handler.
ImportHarmonics == 32

\* num / den on the fixed-point grid, rounded down.
Quotient(num, den) == (num * One) \div den

\* makeZeros(): new Float32Array(harmonics), twice.
MakeZeros == [n \in 1 .. BuiltinHarmonics |-> 0]

\* Sine: imag[1] = 1, others 0.
Sine == Wavetable(MakeZeros, [MakeZeros EXCEPT ![2] = Num(1)])

\* Sawtooth: imag[n] = -1 / n for 1 <= n < harmonics.
Saw ==
    Wavetable(MakeZeros,
              [n \in 1 .. BuiltinHarmonics |-> IF n - 1 >= 1 THEN Quotient(0 - 1, n - 1) ELSE 0])

\* Square: imag[n] = 1 / n for odd n, 0 for even n, 1 <= n < harmonics.
Square ==
    Wavetable(MakeZeros,
              [n \in 1 .. BuiltinHarmonics |->
                  IF n - 1 >= 1 /\ (n - 1) % 2 = 1 THEN Quotient(1, n - 1) ELSE 0])

\* An initial table list without the imported tables.
InitialTablesBuiltinOnly == <<Sine, Saw, Square>>

\* const initialTables = [sine, saw, square, ...importedWavetables]
InitialTables == <<Sine, Saw, Square>> \o importedWavetables

\* A play handler that creates an engine whenever it resumes.
PlayCreatesAlways == TRUE

\* if (!wavetableOsc)
PlayCreates == ~wavetableOsc

\* if (!oscillator)
StartCreates == ~oscillator

\* The values parseFloat(slider.value) gives here: NaN (<<>>), 0 or 1.
SliderValues == {<<>>, <<0>>, <<One>>}

\* The numbers of tables wavFileToWavetables resolves to here: none for a
\* file without samples, two for a file with samples.
ImportTableCounts == {0, 2}

\* The table of window k of the file of import id: ImportHarmonics
\* coefficient pairs, different for every file and window.
ImportedTable(id, k) ==
    Wavetable([n \in 1 .. ImportHarmonics |-> IF n = 1 THEN Num(id) ELSE 0],
              [n \in 1 .. ImportHarmonics |-> IF n = 2 THEN Num(k) ELSE 0])

\* const wavetables = await wavFileToWavetables(file, ...), in window order.
ImportedTables(id, count) == [k \in 1 .. count |-> ImportedTable(id, k)]

\* new WavetableOscillator(audioContext, tables, { frequency: 220 })
Construct(tables) ==
    LET arg == [isArray |-> TRUE, tables |-> tables, frequency |-> <<InitialFrequency>>]
    IN  /\ wavetables' = ConstructorTables(arg)
        /\ periodicWaves' = ConstructorWaves(arg)
        /\ oscWave' = ConstructorOscWave(arg)
        /\ position' = ConstructorPosition
        /\ frequency' = ConstructorFrequency(arg)
        /\ op' = [name |-> "constructor", wt |-> Null, p |-> 0]
        /\ err' = "none"

\* wavetableOsc.setPosition(p)
CallSetPosition(p) ==
    LET r == SetPosition(p)
    IN  /\ position' = r.position
        /\ oscWave' = r.oscWave
        /\ err' = r.err
        /\ op' = [name |-> "setPosition", wt |-> Null, p |-> p]
        /\ UNCHANGED <<wavetables, periodicWaves, frequency>>

\* wavetableOsc.addWavetable(wt)
CallAddWavetable(wt) ==
    LET r == AddWavetable(wt)
    IN  /\ wavetables' = r.wavetables
        /\ periodicWaves' = r.periodicWaves
        /\ oscWave' = r.oscWave
        /\ err' = r.err
        /\ op' = [name |-> "addWavetable", wt |-> wt, p |-> 0]
        /\ UNCHANGED <<position, frequency>>

\* one more object created, connected and started
OneMore(calls) ==
    [created |-> calls.created + 1, connected |-> calls.connected + 1,
     started |-> calls.started + 1]

InitPage ==
    /\ EngineUnused
    /\ call = [fn |-> "none"]
    /\ ret = <<>>
    /\ PageLoaded
    /\ blendSlider \in SliderValues

\* ---- the play button

\* click: initAudio(), then await audioContext.resume().  A disabled button
\* receives no click.
PlayClick ==
    /\ running = Idle
    /\ ~playDisabled
    /\ playHandlers < MaxPlayClicks
    /\ audioContext' = TRUE
    /\ playHandlers' = playHandlers + 1
    /\ UNCHANGED <<engine, analysis, oscillator, oscillatorCalls, startCalls, wavetableOsc,
                   engineCalls, importedWavetables, visualizerStarted, playDisabled,
                   blendSlider, wavInput, importHandlers, running, importLog>>

\* resume() resolved for one suspended play handler: it creates the engine
\* if there is none; it goes on to setPosition(initial) when it created the
\* engine and the slider parses to a number, and to its end otherwise.
PlayResumed ==
    /\ running = Idle
    /\ playHandlers > 0
    /\ playHandlers' = playHandlers - 1
    /\ IF PlayCreates
       THEN /\ Construct(InitialTables)
            /\ wavetableOsc' = TRUE
            /\ engineCalls' = OneMore(engineCalls)
            /\ IF blendSlider # <<>>
               THEN /\ running' = [handler |-> "play", id |-> 0, todo |-> <<>>]
                    /\ UNCHANGED <<visualizerStarted, playDisabled>>
               ELSE /\ visualizerStarted' = TRUE
                    /\ playDisabled' = TRUE
                    /\ UNCHANGED running
       ELSE /\ visualizerStarted' = TRUE
            /\ playDisabled' = TRUE
            /\ UNCHANGED <<engine, wavetableOsc, engineCalls, running>>
    /\ UNCHANGED <<analysis, audioContext, oscillator, oscillatorCalls, startCalls,
                   importedWavetables, blendSlider, wavInput, importHandlers, importLog>>

\* The rest of the play handler that created the engine:
\* setPosition(initial), the visualizer, playButton.disabled = true.
PlayInitialPosition ==
    /\ running.handler = "play"
    /\ CallSetPosition(blendSlider[1])
    /\ visualizerStarted' = TRUE
    /\ playDisabled' = TRUE
    /\ running' = Idle
    /\ UNCHANGED <<analysis, audioContext, oscillator, oscillatorCalls, startCalls,
                   wavetableOsc, engineCalls, importedWavetables, blendSlider, wavInput,
                   playHandlers, importHandlers, importLog>>

\* ---- the blend slider

\* input: if (!wavetableOsc) return; setPosition(value) unless value is NaN.
SliderInput ==
    \E value \in SliderValues :
        /\ running = Idle
        /\ blendSlider' = value
        /\ IF wavetableOsc /\ value # <<>>
           THEN CallSetPosition(value[1])
           ELSE UNCHANGED engine
        /\ UNCHANGED <<analysis, audioContext, oscillator, oscillatorCalls, startCalls,
                       wavetableOsc, engineCalls, importedWavetables, visualizerStarted,
                       playDisabled, wavInput, playHandlers, importHandlers, running,
                       importLog>>

\* ---- the file input

\* change with a file: wavFileToWavetables runs up to its first await,
\* file.arrayBuffer(), after initAudio().
ImportChange ==
    /\ running = Idle
    /\ Len(importHandlers) < MaxImports
    /\ wavInput' = "file"
    /\ audioContext' = TRUE
    /\ importHandlers' = Append(importHandlers, "arrayBuffer")
    /\ UNCHANGED <<engine, analysis, oscillator, oscillatorCalls, startCalls, wavetableOsc,
                   engineCalls, importedWavetables, visualizerStarted, playDisabled,
                   blendSlider, playHandlers, running, importLog>>

\* change without a file (the selection was cleared): if (!file) return.
ImportChangeNoFile ==
    /\ running = Idle
    /\ wavInput' = ""
    /\ UNCHANGED <<engine, analysis, audioContext, oscillator, oscillatorCalls, startCalls,
                   wavetableOsc, engineCalls, importedWavetables, visualizerStarted,
                   playDisabled, blendSlider, playHandlers, importHandlers, running,
                   importLog>>

\* file.arrayBuffer() resolved: on to await decodeArrayBufferToAudioBuffer.
ImportArrayBuffer ==
    \E id \in DOMAIN importHandlers :
        /\ running = Idle
        /\ importHandlers[id] = "arrayBuffer"
        /\ importHandlers' = [importHandlers EXCEPT ![id] = "decode"]
        /\ UNCHANGED <<engine, analysis, audioContext, oscillator, oscillatorCalls,
                       startCalls, wavetableOsc, engineCalls, importedWavetables,
                       visualizerStarted, playDisabled, blendSlider, wavInput, playHandlers,
                       running, importLog>>

\* One of the two awaits rejected: catch logs the error, finally resets the
\* input.
ImportRejected ==
    \E id \in DOMAIN importHandlers :
        /\ running = Idle
        /\ importHandlers[id] \in {"arrayBuffer", "decode"}
        /\ importHandlers' = [importHandlers EXCEPT ![id] = "failed"]
        /\ wavInput' = ""
        /\ UNCHANGED <<engine, analysis, audioContext, oscillator, oscillatorCalls,
                       startCalls, wavetableOsc, engineCalls, importedWavetables,
                       visualizerStarted, playDisabled, blendSlider, playHandlers, running,
                       importLog>>

\* The decode resolved and wavFileToWavetables returned its tables: the
\* handler pushes every table on importedWavetables, then goes on to the
\* engine if there is one, and to its end (finally) otherwise.
ImportDecoded ==
    \E id \in DOMAIN importHandlers, count \in ImportTableCounts :
        /\ running = Idle
        /\ importHandlers[id] = "decode"
        /\ importedWavetables' = importedWavetables \o ImportedTables(id, count)
        /\ importLog' = Append(importLog, [id |-> id, count |-> count])
        /\ IF wavetableOsc
           THEN /\ running' = [handler |-> "import", id |-> id,
                               todo |-> ImportedTables(id, count)]
                /\ importHandlers' = [importHandlers EXCEPT ![id] = "adding"]
                /\ UNCHANGED wavInput
           ELSE /\ importHandlers' = [importHandlers EXCEPT ![id] = "done"]
                /\ wavInput' = ""
                /\ UNCHANGED running
        /\ UNCHANGED <<engine, analysis, audioContext, oscillator, oscillatorCalls,
                       startCalls, wavetableOsc, engineCalls, visualizerStarted,
                       playDisabled, blendSlider, playHandlers>>

\* for (const wt of wavetables) wavetableOsc.addWavetable(wt): one turn of
\* the loop.  An error thrown by the call ends the handler in catch and
\* finally.
ImportAddWavetable ==
    /\ running.handler = "import"
    /\ running.todo # <<>>
    /\ CallAddWavetable(Head(running.todo))
    /\ IF AddWavetable(Head(running.todo)).err = "none"
       THEN /\ running' = [running EXCEPT !.todo = Tail(@)]
            /\ UNCHANGED <<importHandlers, wavInput>>
       ELSE /\ running' = Idle
            /\ importHandlers' = [importHandlers EXCEPT ![running.id] = "failed"]
            /\ wavInput' = ""
    /\ UNCHANGED <<analysis, audioContext, oscillator, oscillatorCalls, startCalls,
                   wavetableOsc, engineCalls, importedWavetables, visualizerStarted,
                   playDisabled, blendSlider, playHandlers, importLog>>

\* After the loop: wavetableOsc.setPosition(1), then finally.
ImportSetPosition ==
    /\ running.handler = "import"
    /\ running.todo = <<>>
    /\ CallSetPosition(One)
    /\ running' = Idle
    /\ importHandlers' =
            [importHandlers EXCEPT ![running.id] =
                IF SetPosition(One).err = "none" THEN "done" ELSE "failed"]
    /\ wavInput' = ""
    /\ UNCHANGED <<analysis, audioContext, oscillator, oscillatorCalls, startCalls,
                   wavetableOsc, engineCalls, importedWavetables, visualizerStarted,
                   playDisabled, blendSlider, playHandlers, importLog>>

\* ---- startOscillator

\* startOscillator(createOscillator): initAudio(), then await
\* audioContext.resume().  Every factory returns a new oscillator.
StartOscillatorCall ==
    /\ running = Idle
    /\ startCalls < MaxStartCalls
    /\ audioContext' = TRUE
    /\ startCalls' = startCalls + 1
    /\ UNCHANGED <<engine, analysis, oscillator, oscillatorCalls, wavetableOsc, engineCalls,
                   importedWavetables, visualizerStarted, playDisabled, blendSlider,
                   wavInput, playHandlers, importHandlers, running, importLog>>

\* resume() resolved for one suspended call: it creates, connects and
\* starts the oscillator if there is none.
StartOscillatorResumed ==
    /\ running = Idle
    /\ startCalls > 0
    /\ startCalls' = startCalls - 1
    /\ IF StartCreates
       THEN /\ oscillator' = TRUE
            /\ oscillatorCalls' = OneMore(oscillatorCalls)
       ELSE UNCHANGED <<oscillator, oscillatorCalls>>
    /\ UNCHANGED <<engine, analysis, audioContext, wavetableOsc, engineCalls,
                   importedWavetables, visualizerStarted, playDisabled, blendSlider,
                   wavInput, playHandlers, importHandlers, running, importLog>>

NextPage ==
    \/ PlayClick
    \/ PlayResumed
    \/ PlayInitialPosition
    \/ SliderInput
    \/ ImportChange
    \/ ImportChangeNoFile
    \/ ImportArrayBuffer
    \/ ImportRejected
    \/ ImportDecoded
    \/ ImportAddWavetable
    \/ ImportSetPosition
    \/ StartOscillatorCall
    \/ StartOscillatorResumed

SpecPage == InitPage /\ [][NextPage]_vars

\* ------------------------------------------------------------- claims

\* The wave createPeriodicWave makes of a table.
WaveOf(wt) == [real |-> wt.real, imag |-> wt.imag]

\* Coefficient n (0-based) of a coefficient sequence, 0 past its end.
Coef(arr, n) == IF n + 1 \in DOMAIN arr THEN arr[n + 1] ELSE 0

\* Two coefficient pairs are the same spectrum: equal at every harmonic index.
SameSpectrum(w, v) ==
    \A n \in 0 .. (Len(w.real) + Len(w.imag) + Len(v.real) + Len(v.imag)) :
        Coef(w.real, n) = Coef(v.real, n) /\ Coef(w.imag, n) = Coef(v.imag, n)

\* C1: the stored position is always in [0,1]; it is 0 after construction and
\* min(1, max(0, p)) after setPosition(p), whatever the number of tables.
C1_PositionClamped ==
    /\ position \in 0 .. One
    /\ op.name = "constructor" => position = 0
    /\ op.name = "setPosition" =>
        position = (IF op.p > One THEN One ELSE IF op.p < 0 THEN 0 ELSE op.p)

C1_Witness ==
    /\ op.name = "setPosition" /\ op.p > One
    /\ wavetables = <<>> /\ position = One

\* C2: with count >= 2 tables, setPosition(p) sets the wave of length maxLen
\* whose coefficients are r0*(1-t) + r1*t and i0v*(1-t) + i1v*t, for
\* scaled = clamp(p)*(count-1), i0 = floor(scaled), i1 = min(i0+1, count-1),
\* t = scaled - i0, a coefficient past the end of its sequence being 0; and
\* 0 <= i0 <= i1 <= count-1, 0 <= t < 1.
C2_BlendFormula ==
    (op.name = "setPosition" /\ Len(wavetables) >= 2) =>
        LET count == Len(wavetables)
            c == IF op.p > One THEN One ELSE IF op.p < 0 THEN 0 ELSE op.p
            scaled == c * (count - 1)
            \* floor(scaled): the largest whole number k with k <= scaled
            i0 == CHOOSE k \in 0 .. count : k * One <= scaled /\ scaled < (k + 1) * One
            i1 == IF i0 + 1 <= count - 1 THEN i0 + 1 ELSE count - 1
            t == scaled - i0 * One
            a == wavetables[i0 + 1]
            b == wavetables[i1 + 1]
            maxLen == CHOOSE m \in {Len(a.real), Len(a.imag), Len(b.real), Len(b.imag)} :
                        \A l \in {Len(a.real), Len(a.imag), Len(b.real), Len(b.imag)} : l <= m
        IN  /\ 0 <= i0 /\ i0 <= i1 /\ i1 <= count - 1
            /\ 0 <= t /\ t < One
            /\ I0(position, count - 1) = i0
            /\ I1(position, count - 1) = i1
            /\ T(position, count - 1) = t
            /\ err = "none"
            /\ Len(oscWave) = 1
            /\ Len(oscWave[1].real) = maxLen /\ Len(oscWave[1].imag) = maxLen
            /\ \A n \in 0 .. maxLen - 1 :
                /\ oscWave[1].real[n + 1] * One = Coef(a.real, n) * (One - t) + Coef(b.real, n) * t
                /\ oscWave[1].imag[n + 1] * One = Coef(a.imag, n) * (One - t) + Coef(b.imag, n) * t

C2_Witness ==
    /\ op.name = "setPosition" /\ Len(wavetables) = 3
    /\ position = 1
    /\ wavetables[1] = TableB /\ wavetables[2] = TableC
    /\ oscWave = <<[real |-> <<Num(1) \div 2, 0, 0, Num(2)>>,
                    imag |-> <<0, 0 - (Num(1) \div 2), Num(3) \div 2, 0>>]>>

\* C3: with count >= 2 tables, setPosition(0) sets the spectrum of the first
\* table and setPosition(1) the spectrum of the last one, coefficient for
\* coefficient; the wave is the table itself when its real and imag lengths
\* are those of the blend.
C3_BlendBoundary ==
    (op.name = "setPosition" /\ Len(wavetables) >= 2 /\ op.p \in {0, One}) =>
        LET table == IF op.p = 0 THEN wavetables[1] ELSE wavetables[Len(wavetables)]
        IN  /\ Len(oscWave) = 1
            /\ SameSpectrum(oscWave[1], WaveOf(table))
            /\ (Len(oscWave[1].real) = Len(table.real) /\ Len(oscWave[1].imag) = Len(table.imag))
                    => oscWave[1] = WaveOf(table)

C3_Witness ==
    /\ op.name = "setPosition" /\ op.p = One /\ Len(wavetables) = 3
    /\ wavetables[3] = TableA /\ wavetables[2] # TableA
    /\ oscWave = <<WaveOf(TableA)>>

\* C4: addWavetable(wt) with a well-formed wt sets the wave to wt when the
\* position is 1 and leaves the wave alone when the position is below 1; it
\* keeps the position and appends wt as the last table.
C4_AddSnapsOnlyAtEnd ==
    [][(op'.name = "addWavetable" /\ Usable(op'.wt)) =>
            /\ position = One => oscWave' = <<WaveOf(op'.wt)>>
            /\ position < One => oscWave' = oscWave
            /\ position' = position
            /\ wavetables' = Append(wavetables, op'.wt)
            /\ err' = "none"]_vars

C4_Witness ==
    /\ op.name = "addWavetable" /\ Usable(op.wt)
    /\ position = One /\ Len(wavetables) = 3
    /\ wavetables[3] = TableC /\ wavetables[2] = TableA
    /\ oscWave = <<WaveOf(TableC)>>

\* C5: addWavetable with a malformed argument raises no error and changes
\* neither the tables, the pre-built waves, the position nor the wave.
C5_MalformedIgnored ==
    [][(op'.name = "addWavetable" /\ ~Usable(op'.wt)) =>
            /\ err' = "none"
            /\ UNCHANGED <<wavetables, periodicWaves, position, oscWave>>]_vars

C5_Witness ==
    /\ op.name = "addWavetable" /\ op.wt.kind = "object" /\ ~op.wt.hasImag /\ op.wt.hasReal
    /\ err = "none" /\ Len(wavetables) = 2 /\ position = One

\* C6: the table sequence only grows by append: each step keeps the tables
\* it had, in place and unchanged, and setPosition changes nothing of it.
C6_TablesAppendOnly ==
    [][/\ Len(wavetables') >= Len(wavetables)
       /\ SubSeq(wavetables', 1, Len(wavetables)) = wavetables
       /\ op'.name = "setPosition" => wavetables' = wavetables]_vars

C6_Witness ==
    /\ Len(wavetables) = 3 /\ op.name = "addWavetable" /\ op.wt = TableB
    /\ wavetables = <<TableA, TableC, TableB>>

\* C7: for totalLength > windowSize >= 1 and count >= 2 the segmenter returns
\* exactly count offsets, non-decreasing, the first 0, each leaving room for
\* a whole window.
C7_WindowStartsValid ==
    (/\ call.fn = "getWindowStartIndicesForCount" /\ ret # <<>>
     /\ call.totalLength > call.windowSize /\ call.windowSize >= 1 /\ call.count >= 2) =>
        LET starts == ret[1]
        IN  /\ Len(starts) = call.count
            /\ starts[1] = 0
            /\ \A i \in 1 .. Len(starts) - 1 : starts[i] <= starts[i + 1]
            /\ \A i \in 1 .. Len(starts) :
                starts[i] >= 0 /\ starts[i] + call.windowSize <= call.totalLength

C7_Witness ==
    /\ call.fn = "getWindowStartIndicesForCount"
    /\ call.totalLength = 5 /\ call.windowSize = 3 /\ call.count = 4
    /\ ret = << <<0, 1, 2, 2>> >>

\* C8: wavFileToWavetables returns no wavetable for an empty buffer, one for
\* 1 <= len(samples) <= windowSize, and for a longer buffer and count >= 2
\* exactly count, the i-th computed from the i-th window start; never more
\* than count when count >= 1.
C8_ExtractCount ==
    (call.fn = "wavFileToWavetables" /\ ret # <<>>) =>
        LET n == Len(ret[1])
            len == Len(call.samples)
            limit == len - call.windowSize
            q == CHOOSE k \in 0 .. len : k * (call.count - 1) <= limit
                                        /\ limit < (k + 1) * (call.count - 1)
            step == IF q < 1 THEN 1 ELSE q
            start(i) == IF i * step < limit THEN i * step ELSE limit
        IN  /\ len = 0 => n = 0
            /\ (1 <= len /\ len <= call.windowSize) => n = 1
            /\ (len > call.windowSize /\ call.count >= 2) =>
                /\ n = call.count
                /\ \A i \in 1 .. n :
                    ret[1][i].window =
                        [j \in 1 .. call.windowSize |-> call.samples[start(i - 1) + j]]
            /\ call.count >= 1 => n <= call.count

C8_Witness ==
    /\ call.fn = "wavFileToWavetables" /\ ret # <<>>
    /\ Len(call.samples) = 5 /\ call.windowSize = 3 /\ call.count = 4
    /\ Len(ret[1]) = 4
    /\ ret[1][3].window = ret[1][4].window /\ ret[1][1].window # ret[1][2].window

ClaimMinLag ==
    LET f == CHOOSE k \in 0 .. call.sampleRate :
                k * call.maxFrequency <= call.sampleRate
                /\ call.sampleRate < (k + 1) * call.maxFrequency
    IN  IF f > 2 THEN f ELSE 2

ClaimMaxLag ==
    LET f == CHOOSE k \in 0 .. call.sampleRate :
                k * call.minFrequency <= call.sampleRate
                /\ call.sampleRate < (k + 1) * call.minFrequency
    IN  IF Len(call.samples) - 2 < f THEN Len(call.samples) - 2 ELSE f

C11_CycleInsideWindow ==
    (call.fn = "extractSingleCycle" /\ ret # <<>> /\ call.samples # <<>>) =>
        LET window == Subarray(call.samples, 0, Min(Len(call.samples), AnalysisWindow))
            period == Period(window, call.sampleRate, call.minFrequency, call.maxFrequency)
            start == StartIndex(window, period)
        IN  /\ 0 <= start
            /\ start + period <= Len(window)
            /\ Len(ret[1].cycle) = period
            /\ \A i \in 1 .. Len(ret[1].cycle) : ret[1].cycle[i] # <<0, 0>>

\* The spectrum setPosition(pos) computes from the tables: the single table,
\* or the blend of tables i0 and i1 with weight t; sp is that spectrum when
\* it agrees with it at every harmonic index.
IsSpectrumAt(sp, tables, pos) ==
    LET count == Len(tables)
        scaled == pos * (count - 1)
        i0 == CHOOSE k \in 0 .. count : k * One <= scaled /\ scaled < (k + 1) * One
        i1 == IF i0 + 1 <= count - 1 THEN i0 + 1 ELSE count - 1
        t == scaled - i0 * One
        a == tables[i0 + 1]
        b == tables[i1 + 1]
        longest == Len(sp.real) + Len(sp.imag) + Len(a.real) + Len(a.imag)
                        + Len(b.real) + Len(b.imag)
    IN  \A n \in 0 .. longest :
            /\ Coef(sp.real, n) * One = Coef(a.real, n) * (One - t) + Coef(b.real, n) * t
            /\ Coef(sp.imag, n) * One = Coef(a.imag, n) * (One - t) + Coef(b.imag, n) * t

\* C12 as stated: whenever the engine holds at least one table, the wave on
\* the oscillator is the spectrum setPosition(position) would compute from
\* the tables.
C12_SpectrumFollowsState ==
    Len(wavetables) >= 1 =>
        Len(oscWave) = 1 /\ IsSpectrumAt(oscWave[1], wavetables, position)

\* C12 amended: with at least one table, the wave on the oscillator is the
\* spectrum setPosition(position) would compute from the tables right after
\* construction, after every setPosition, and after an addWavetable made at
\* position 1.  (An addWavetable at a position below 1 leaves the wave as it
\* was.)
C12_SpectrumFollowsStateAfterRefresh ==
    (/\ Len(wavetables) >= 1
     /\ \/ op.name \in {"constructor", "setPosition"}
        \/ op.name = "addWavetable" /\ Usable(op.wt) /\ position = One) =>
        Len(oscWave) = 1 /\ IsSpectrumAt(oscWave[1], wavetables, position)

C12_Witness ==
    /\ op.name = "addWavetable" /\ op.wt = TableB /\ position = One
    /\ wavetables = <<TableA, TableC, TableB>>
    /\ oscWave = <<WaveOf(TableB)>>

RECURSIVE TablesOfLog(_)
\* The tables of the logged imports, import after import, each import's
\* tables in window order.
TablesOfLog(log) ==
    IF log = <<>> THEN <<>>
    ELSE ImportedTables(Head(log).id, Head(log).count) \o TablesOfLog(Tail(log))

\* C13: whenever the oscillator exists and no handler is mid-step, its table
\* sequence is sine, saw, square followed by importedWavetables in order, and
\* importedWavetables holds the tables of every import that delivered
\* tables, once each, import by import and in window order.
C13_TablesAreBuiltinsThenImports ==
    /\ importedWavetables = TablesOfLog(importLog)
    /\ \A i, j \in DOMAIN importLog : i # j => importLog[i].id # importLog[j].id
    /\ (wavetableOsc /\ running = Idle) =>
            /\ wavetables = <<Sine, Saw, Square>> \o importedWavetables
            /\ Len(periodicWaves) = Len(wavetables)

\* The second import delivered its tables first, the first import after it,
\* and the engine holds the tables of both.
C13_Witness ==
    /\ wavetableOsc /\ running = Idle
    /\ importLog = <<[id |-> 2, count |-> 2], [id |-> 1, count |-> 2]>>
    /\ importHandlers = <<"done", "done">>
    /\ op.name = "setPosition" /\ position = One
    /\ engineCalls.created = 1
    /\ Len(wavetables) = 7

\* C14: over every interleaving of play clicks at most one
\* WavetableOscillator is created, connected and started, and over every
\* interleaving of startOscillator calls at most one oscillator is.
C14_AtMostOneOscillator ==
    /\ engineCalls.created <= 1 /\ engineCalls.connected <= 1 /\ engineCalls.started <= 1
    /\ oscillatorCalls.created <= 1 /\ oscillatorCalls.connected <= 1
    /\ oscillatorCalls.started <= 1
    /\ wavetableOsc <=> engineCalls.created = 1
    /\ oscillator <=> oscillatorCalls.created = 1

\* One play handler has created the engine and one startOscillator call the
\* oscillator while another handler and another call are suspended.
C14_Witness ==
    /\ playHandlers >= 1 /\ engineCalls.started = 1 /\ running.handler = "play"
    /\ startCalls >= 1 /\ oscillatorCalls.started = 1

====
